---- MODULE Spec2Model ----
(***************************************************************************)
(* Board representation of the sealion chess engine (crates/board):        *)
(* Square (index, rank/file, algebraic notation) and Board (one bitboard   *)
(* per colour and per piece kind, get / get_bb / set / starting_position). *)
(*                                                                         *)
(* A BitBoard is a 64-bit mask; it is represented by the set of the        *)
(* indices of its set bits.  A string is the sequence of its bytes.        *)
(* Option<T> and Result<T, ()> are represented by a set with at most one   *)
(* element: {} is None / Err(()), {x} is Some(x) / Ok(x).                  *)
(***************************************************************************)
EXTENDS Integers, Sequences, FiniteSets

VARIABLES
    color_bb,     \* Board.color_bb : [BitBoard; Color::COUNT]
    piece_bb,     \* Board.piece_bb : [BitBoard; PieceKind::COUNT]
    started,      \* constructor the board came from
    calls,        \* number of Board::set calls made so far
    last,         \* arguments of the latest Board::set call, << >> before any
    dirty,        \* squares the caller populated (or found populated) and has not cleared since
    overwritten,  \* some set(S, Some(p)) was aimed at a square of dirty
    cleared,      \* squares of dirty that set(S, None) has cleared at some point
    placed,       \* (square, piece) pairs the position builder has set
    coords,       \* (rank, file) argument handed to Square::at
    input,        \* byte string handed to Square::from_str
    pc,           \* position of the Square conversions
    square,       \* result of Square::at(coords)
    text,         \* result of to_string on the square
    parsed        \* result of Square::from_str

vars == << color_bb, piece_bb, started, calls, last, dirty, overwritten, cleared, placed,
           coords, input, pc, square, text, parsed >>

boardVars == << color_bb, piece_bb, started, calls, last, dirty, overwritten, cleared, placed >>
squareVars == << coords, input, pc, square, text, parsed >>

(***************************************************************************)
(* Bounds of the model.                                                    *)
(***************************************************************************)
MaxCalls == 3
MaxCoord == 9
MaxLen == 3

\* Squares the set calls of the model are aimed at: a1 (populated in the
\* starting position) and e4 (empty in it).
TouchSquares == {0, 28}

\* Squares the position builder populates: a1, b2, e4, d8.
BuildSquares == {0, 9, 28, 59}

\* Bytes the strings of a length other than two are made of:
\* '1', '8', '9', 'A', 'b', 'h'.
SampleBytes == {49, 56, 57, 65, 98, 104}

(***************************************************************************)
(* Integer helpers.                                                        *)
(***************************************************************************)
Pow2(n) == IF n = 0 THEN 1 ELSE
           IF n = 1 THEN 2 ELSE
           IF n = 2 THEN 4 ELSE
           IF n = 3 THEN 8 ELSE
           IF n = 4 THEN 16 ELSE
           IF n = 5 THEN 32 ELSE
           IF n = 6 THEN 64 ELSE 128

SetMin(S) == CHOOSE x \in S : \A y \in S : x <= y

(***************************************************************************)
(* piece.rs: Color, PieceKind, Piece.                                      *)
(***************************************************************************)
White == 0
Black == 1
ColorCount == 2

Pawn == 0
Knight == 1
Bishop == 2
Rook == 3
Queen == 4
King == 5
PieceKindCount == 6

Colors == 0 .. (ColorCount - 1)
PieceKinds == 0 .. (PieceKindCount - 1)

Color_from_repr(n) == IF n \in Colors THEN {n} ELSE {}
PieceKind_from_repr(n) == IF n \in PieceKinds THEN {n} ELSE {}

Piece(c, k) == [color |-> c, kind |-> k]
Pieces == [color : Colors, kind : PieceKinds]

(***************************************************************************)
(* bitboard.rs: BitBoard.                                                  *)
(***************************************************************************)
Squares == 0 .. 63

\* BitBoard(0x..) from a literal written as its eight bytes, most
\* significant first.
BitBoard(bytes) ==
    { i \in Squares : (bytes[8 - (i \div 8)] \div Pow2(i % 8)) % 2 = 1 }

BitBoard_get(bb, sq) == sq \in bb

BitBoard_set(bb, sq, value) == IF value THEN bb \cup {sq} ELSE bb \ {sq}

BitBoard_and(a, b) == a \cap b

(***************************************************************************)
(* lib.rs: Board.                                                          *)
(***************************************************************************)
MkBoard(cbb, pbb) == [color_bb |-> cbb, piece_bb |-> pbb]

Board_default == MkBoard([c \in Colors |-> BitBoard(<<0, 0, 0, 0, 0, 0, 0, 0>>)],
                         [k \in PieceKinds |-> BitBoard(<<0, 0, 0, 0, 0, 0, 0, 0>>)])

get_color(b, sq) ==
    LET hits == { n \in Colors : BitBoard_get(b.color_bb[n], sq)
                                 /\ Color_from_repr(n) # {} }
    IN  IF hits = {} THEN {} ELSE Color_from_repr(SetMin(hits))

get_piece_kind(b, sq) ==
    LET hits == { n \in PieceKinds : BitBoard_get(b.piece_bb[n], sq)
                                     /\ PieceKind_from_repr(n) # {} }
    IN  IF hits = {} THEN {} ELSE PieceKind_from_repr(SetMin(hits))

get(b, sq) ==
    { Piece(c, k) : c \in get_color(b, sq), k \in get_piece_kind(b, sq) }

\* get_bb that forgets the colour mask.
get_bb_KindOnly(b, piece) == b.piece_bb[piece.kind]

get_bb(b, piece) == BitBoard_and(b.piece_bb[piece.kind], b.color_bb[piece.color])

\* set whose None branch leaves the piece-kind masks alone.
set_NoKindClear(b, sq, piece) ==
    IF piece # {}
    THEN LET p == CHOOSE x \in piece : TRUE
         IN  MkBoard([b.color_bb EXCEPT ![p.color] = BitBoard_set(@, sq, TRUE)],
                     [b.piece_bb EXCEPT ![p.kind] = BitBoard_set(@, sq, TRUE)])
    ELSE MkBoard([c \in Colors |-> BitBoard_set(b.color_bb[c], sq, FALSE)],
                 b.piece_bb)

\* set whose None branch leaves the colour masks alone.
set_NoColorClear(b, sq, piece) ==
    IF piece # {}
    THEN LET p == CHOOSE x \in piece : TRUE
         IN  MkBoard([b.color_bb EXCEPT ![p.color] = BitBoard_set(@, sq, TRUE)],
                     [b.piece_bb EXCEPT ![p.kind] = BitBoard_set(@, sq, TRUE)])
    ELSE MkBoard(b.color_bb,
                 [k \in PieceKinds |-> BitBoard_set(b.piece_bb[k], sq, FALSE)])

\* set whose None branch zeroes the masks instead of clearing one bit.
set_ClearAll(b, sq, piece) ==
    IF piece # {}
    THEN LET p == CHOOSE x \in piece : TRUE
         IN  MkBoard([b.color_bb EXCEPT ![p.color] = BitBoard_set(@, sq, TRUE)],
                     [b.piece_bb EXCEPT ![p.kind] = BitBoard_set(@, sq, TRUE)])
    ELSE MkBoard([c \in Colors |-> {}], [k \in PieceKinds |-> {}])

\* set whose Some branch forgets the piece-kind mask.
set_SomeColorOnly(b, sq, piece) ==
    IF piece # {}
    THEN LET p == CHOOSE x \in piece : TRUE
         IN  MkBoard([b.color_bb EXCEPT ![p.color] = BitBoard_set(@, sq, TRUE)],
                     b.piece_bb)
    ELSE MkBoard([c \in Colors |-> BitBoard_set(b.color_bb[c], sq, FALSE)],
                 [k \in PieceKinds |-> BitBoard_set(b.piece_bb[k], sq, FALSE)])

\* set whose Some branch assigns the masks instead of setting one bit.
set_Overwrite(b, sq, piece) ==
    IF piece # {}
    THEN LET p == CHOOSE x \in piece : TRUE
         IN  MkBoard([b.color_bb EXCEPT ![p.color] = {sq}],
                     [b.piece_bb EXCEPT ![p.kind] = {sq}])
    ELSE MkBoard([c \in Colors |-> BitBoard_set(b.color_bb[c], sq, FALSE)],
                 [k \in PieceKinds |-> BitBoard_set(b.piece_bb[k], sq, FALSE)])

set(b, sq, piece) ==
    IF piece # {}
    THEN LET p == CHOOSE x \in piece : TRUE
         IN  MkBoard([b.color_bb EXCEPT ![p.color] = BitBoard_set(@, sq, TRUE)],
                     [b.piece_bb EXCEPT ![p.kind] = BitBoard_set(@, sq, TRUE)])
    ELSE MkBoard([c \in Colors |-> BitBoard_set(b.color_bb[c], sq, FALSE)],
                 [k \in PieceKinds |-> BitBoard_set(b.piece_bb[k], sq, FALSE)])

\* starting_position with the queen and king masks exchanged.
starting_position_KingQueenSwapped ==
    MkBoard(
        [c \in Colors |->
            IF c = White THEN BitBoard(<<0, 0, 0, 0, 0, 0, 255, 255>>)
            ELSE BitBoard(<<255, 255, 0, 0, 0, 0, 0, 0>>)],
        [k \in PieceKinds |->
            IF k = Pawn THEN BitBoard(<<0, 255, 0, 0, 0, 0, 255, 0>>)
            ELSE IF k = Knight THEN BitBoard(<<66, 0, 0, 0, 0, 0, 0, 66>>)
            ELSE IF k = Bishop THEN BitBoard(<<36, 0, 0, 0, 0, 0, 0, 36>>)
            ELSE IF k = Rook THEN BitBoard(<<129, 0, 0, 0, 0, 0, 0, 129>>)
            ELSE IF k = Queen THEN BitBoard(<<16, 0, 0, 0, 0, 0, 0, 16>>)
            ELSE BitBoard(<<8, 0, 0, 0, 0, 0, 0, 8>>)])

starting_position ==
    MkBoard(
        [c \in Colors |->
            IF c = White THEN BitBoard(<<0, 0, 0, 0, 0, 0, 255, 255>>)
            ELSE BitBoard(<<255, 255, 0, 0, 0, 0, 0, 0>>)],
        [k \in PieceKinds |->
            IF k = Pawn THEN BitBoard(<<0, 255, 0, 0, 0, 0, 255, 0>>)
            ELSE IF k = Knight THEN BitBoard(<<66, 0, 0, 0, 0, 0, 0, 66>>)
            ELSE IF k = Bishop THEN BitBoard(<<36, 0, 0, 0, 0, 0, 0, 36>>)
            ELSE IF k = Rook THEN BitBoard(<<129, 0, 0, 0, 0, 0, 0, 129>>)
            ELSE IF k = Queen THEN BitBoard(<<8, 0, 0, 0, 0, 0, 0, 8>>)
            ELSE BitBoard(<<16, 0, 0, 0, 0, 0, 0, 16>>)])

\* The board held in the state.
board == MkBoard(color_bb, piece_bb)

\* Squares of a board that carry any bit.
Populated(b) ==
    { s \in Squares : \/ \E c \in Colors : BitBoard_get(b.color_bb[c], s)
                      \/ \E k \in PieceKinds : BitBoard_get(b.piece_bb[k], s) }

ColorBits(b, s) == { c \in Colors : BitBoard_get(b.color_bb[c], s) }
KindBits(b, s) == { k \in PieceKinds : BitBoard_get(b.piece_bb[k], s) }

(***************************************************************************)
(* The board under arbitrary set calls.                                    *)
(***************************************************************************)
SquareIdle ==
    /\ coords = <<0, 0>>
    /\ input = << >>
    /\ pc = "idle"
    /\ square = {}
    /\ text = << >>
    /\ parsed = {}

InitBoard(b, name) ==
    /\ color_bb = b.color_bb
    /\ piece_bb = b.piece_bb
    /\ started = name
    /\ calls = 0
    /\ last = << >>
    /\ dirty = Populated(b)
    /\ overwritten = FALSE
    /\ cleared = {}
    /\ placed = {}

Init ==
    /\ \/ InitBoard(Board_default, "default")
       \/ InitBoard(starting_position, "starting_position")
    /\ SquareIdle

\* One call board.set(sq, piece).
DoSet(sq, piece) ==
    LET b == set(board, sq, piece)
    IN  /\ calls < MaxCalls
        /\ color_bb' = b.color_bb
        /\ piece_bb' = b.piece_bb
        /\ calls' = calls + 1
        /\ last' = << [square |-> sq, piece |-> piece,
                       multi |-> (Cardinality(ColorBits(board, sq)) > 1
                                  \/ Cardinality(KindBits(board, sq)) > 1)] >>
        /\ dirty' = IF piece # {} THEN dirty \cup {sq} ELSE dirty \ {sq}
        /\ overwritten' = (overwritten \/ (piece # {} /\ sq \in dirty))
        /\ cleared' = IF piece = {} /\ sq \in dirty THEN cleared \cup {sq} ELSE cleared
        /\ UNCHANGED << started, placed, squareVars >>

SetSome(sq, p) == DoSet(sq, {p})

SetNone(sq) == DoSet(sq, {})

Next ==
    \/ \E sq \in TouchSquares, p \in Pieces : SetSome(sq, p)
    \/ \E sq \in TouchSquares : SetNone(sq)

Spec == Init /\ [][Next]_vars

(***************************************************************************)
(* The board under the caller contract: a square is cleared with           *)
(* set(S, None) before set(S, Some(piece)) is aimed at it again.           *)
(***************************************************************************)
ContractSetSome(sq, p) == sq \notin dirty /\ DoSet(sq, {p})

ContractSetNone(sq) == DoSet(sq, {})

NextContract ==
    \/ \E sq \in TouchSquares, p \in Pieces : ContractSetSome(sq, p)
    \/ \E sq \in TouchSquares : ContractSetNone(sq)

SpecContract == Init /\ [][NextContract]_vars

(***************************************************************************)
(* A position builder: set once per occupied square, on the empty board,   *)
(* in whatever order the squares are discovered.                           *)
(***************************************************************************)
InitBuild == InitBoard(Board_default, "default") /\ SquareIdle

Place(sq, p) ==
    LET b == set(board, sq, {p})
    IN  /\ calls < MaxCalls
        /\ \A a \in placed : a.square # sq
        /\ color_bb' = b.color_bb
        /\ piece_bb' = b.piece_bb
        /\ calls' = calls + 1
        /\ last' = << [square |-> sq, piece |-> {p}, multi |-> FALSE] >>
        /\ dirty' = dirty \cup {sq}
        /\ placed' = placed \cup { [square |-> sq, piece |-> p] }
        /\ UNCHANGED << started, overwritten, cleared, squareVars >>

NextBuild == \E sq \in BuildSquares, p \in Pieces : Place(sq, p)

SpecBuild == InitBuild /\ [][NextBuild]_vars

(***************************************************************************)
(* lib.rs: Square.                                                         *)
(***************************************************************************)
b_a == 97
b_A == 65
b_H == 72
b_1 == 49
b_0 == 48

\* u8 arithmetic.
WrapU8(n) == (n + 256) % 256

Square_at(rank, file) ==
    IF rank > 7 \/ file > 7 THEN {} ELSE { rank * 8 + file }

Square_rank(sq) == sq \div 8

Square_file(sq) == sq % 8

Square_try_from(value) == Square_at(value[1], value[2])

\* u8 subtraction that saturates at zero.
SaturatingSub(a, b) == IF a < b THEN 0 ELSE a - b

\* from_str with saturating instead of wrapping subtraction.
Square_from_str_Saturating(s) ==
    IF Len(s) # 2
    THEN {}
    ELSE LET rank0 == s[1]
             rank  == SaturatingSub(rank0, IF rank0 > b_H THEN b_a ELSE b_A)
             file0 == s[2]
             file  == SaturatingSub(file0, b_1)
         IN  Square_at(rank, file)

Square_from_str(s) ==
    IF Len(s) # 2
    THEN {}
    ELSE LET rank0 == s[1]
             rank  == WrapU8(rank0 - (IF rank0 > b_H THEN b_a ELSE b_A))
             file0 == s[2]
             file  == WrapU8(file0 - b_1)
         IN  Square_try_from(<<rank, file>>)

\* "{}" of a u8: its decimal digits.
RECURSIVE DisplayU8(_)
DisplayU8(n) ==
    IF n < 10 THEN << b_0 + n >>
    ELSE Append(DisplayU8(n \div 10), b_0 + (n % 10))

Square_fmt(sq) == << Square_file(sq) + b_a >> \o DisplayU8(Square_rank(sq) + 1)

(***************************************************************************)
(* Square::at, then to_string, then from_str of the text.                  *)
(***************************************************************************)
BoardIdle == InitBoard(Board_default, "default")

InitSquare ==
    /\ BoardIdle
    /\ coords \in (0 .. MaxCoord) \X (0 .. MaxCoord)
    /\ input = << >>
    /\ pc = "start"
    /\ square = {}
    /\ text = << >>
    /\ parsed = {}

At ==
    /\ pc = "start"
    /\ square' = Square_at(coords[1], coords[2])
    /\ pc' = "at"
    /\ UNCHANGED << boardVars, coords, input, text, parsed >>

ToString ==
    /\ pc = "at"
    /\ square # {}
    /\ text' = Square_fmt(CHOOSE sq \in square : TRUE)
    /\ pc' = "formatted"
    /\ UNCHANGED << boardVars, coords, input, square, parsed >>

Reparse ==
    /\ pc = "formatted"
    /\ parsed' = Square_from_str(text)
    /\ pc' = "parsed"
    /\ UNCHANGED << boardVars, coords, input, square, text >>

NextSquare == At \/ ToString \/ Reparse

SpecSquare == InitSquare /\ [][NextSquare]_vars

(***************************************************************************)
(* Square::from_str of an arbitrary byte string.                           *)
(***************************************************************************)
Bytes == 0 .. 255

RECURSIVE StringsOf(_, _)
StringsOf(alphabet, n) ==
    IF n = 0 THEN { << >> }
    ELSE { Append(s, b) : s \in StringsOf(alphabet, n - 1), b \in alphabet }

\* Every two-byte string, and the strings over SampleBytes of every other
\* length up to maxLen.
Inputs(maxLen) ==
    { <<x, y>> : x \in Bytes, y \in Bytes }
        \cup UNION { StringsOf(SampleBytes, n) : n \in (0 .. maxLen) \ {2} }

InitParse ==
    /\ BoardIdle
    /\ coords = <<0, 0>>
    /\ input \in Inputs(MaxLen)
    /\ pc = "start"
    /\ square = {}
    /\ text = << >>
    /\ parsed = {}

Parse ==
    /\ pc = "start"
    /\ parsed' = Square_from_str(input)
    /\ pc' = "parsed"
    /\ UNCHANGED << boardVars, coords, input, square, text >>

NextParse == Parse

SpecParse == InitParse /\ [][NextParse]_vars

(***************************************************************************)
(* Properties.                                                             *)
(***************************************************************************)
\* Invariants 1 and 2 of the board: at most one colour bit and at most one
\* piece-kind bit per square.
MutualExclusion(b) ==
    \A s \in Squares : /\ Cardinality(ColorBits(b, s)) <= 1
                       /\ Cardinality(KindBits(b, s)) <= 1

LastCall == last[1]

\* C1 (as stated): after any sequence of set calls on a board that starts
\* empty or as starting_position(), whether or not the target squares were
\* occupied, every square has at most one colour bit and at most one
\* piece-kind bit set.
C1_ExclusiveAfterAnySet == MutualExclusion(board)

\* C1 (amended): after any sequence of set calls on a board that starts empty
\* or as starting_position() in which no set(S, Some(piece)) was aimed at a
\* populated square (populated initially or by a set(S, Some) not yet
\* followed by set(S, None)), every square has at most one colour bit and at
\* most one piece-kind bit set.
C1_ExclusiveUnlessOverwritten == (~overwritten) => MutualExclusion(board)

\* a1 of the starting position cleared and then given a black queen.
C1_Witness ==
    /\ started = "starting_position"
    /\ ~overwritten
    /\ last # << >>
    /\ LastCall.square = 0
    /\ 0 \in cleared
    /\ LastCall.piece = { Piece(Black, Queen) }
    /\ get(board, 0) = { Piece(Black, Queen) }

\* C2: from the empty board, when set(S, Some(piece)) is only called on a
\* square the caller has cleared (or never populated), after each call every
\* square has at most one colour bit and at most one piece-kind bit set.
C2_MutualExclusion ==
    (started = "default") =>
        \A s \in Squares : /\ \A c1, c2 \in ColorBits(board, s) : c1 = c2
                           /\ \A k1, k2 \in KindBits(board, s) : k1 = k2

\* A square populated, cleared, and populated again with another piece.
C2_Witness ==
    /\ started = "default"
    /\ last # << >>
    /\ LastCall.piece # {}
    /\ LastCall.square \in cleared
    /\ get(board, LastCall.square) = LastCall.piece
    /\ calls = 3

\* C3: a call set(sq, None), in any state set calls can reach, leaves get(sq)
\* absent and no colour or kind bit at sq, and leaves each colour bit and
\* kind bit, and get, of every other square unchanged.
C3_ClearCorrect ==
    [][ (calls' = calls + 1 /\ last'[1].piece = {}) =>
          LET sq == last'[1].square
          IN  /\ get(board', sq) = {}
              /\ ColorBits(board', sq) = {}
              /\ KindBits(board', sq) = {}
              /\ \A t \in Squares \ {sq} :
                    /\ ColorBits(board', t) = ColorBits(board, t)
                    /\ KindBits(board', t) = KindBits(board, t)
                    /\ get(board', t) = get(board, t) ]_vars

\* A square carrying several bits was cleared while another square the
\* calls are aimed at holds a piece.
C3_Witness ==
    /\ last # << >>
    /\ LastCall.piece = {}
    /\ LastCall.multi
    /\ get(board, LastCall.square) = {}
    /\ \E t \in TouchSquares \ {LastCall.square} : get(board, t) # {}

\* C5: after any sequence of set calls on a board that starts empty or as
\* starting_position(), a square has some colour bit set exactly when it has
\* some piece-kind bit set, and get is absent exactly when the square has no
\* bit set at all.
C5_ConsistentOccupancy ==
    \A s \in Squares :
        /\ (\E c \in Colors : BitBoard_get(color_bb[c], s))
              <=> (\E k \in PieceKinds : BitBoard_get(piece_bb[k], s))
        /\ (get(board, s) = {})
              <=> /\ \A c \in Colors : ~BitBoard_get(color_bb[c], s)
                  /\ \A k \in PieceKinds : ~BitBoard_get(piece_bb[k], s)

\* A square overwritten without clearing still reads as occupied, and a
\* clear has happened too.
C5_Witness ==
    /\ overwritten
    /\ cleared # {}
    /\ \E s \in TouchSquares : /\ Cardinality(KindBits(board, s)) > 1
                               /\ get(board, s) # {}

\* Square named by file letter and rank digit: index = rank * 8 + file.
Named(fileIdx, rankIdx) == rankIdx * 8 + fileIdx

\* C6: starting_position() has exactly 32 squares with a piece; a1 holds a
\* white rook, e1 a white king, d8 a black queen, e8 a black king; every
\* square of rank index 2 to 5 is empty.
C6_StartingPosition ==
    (started = "starting_position" /\ calls = 0) =>
        /\ Cardinality({ s \in Squares : get(board, s) # {} }) = 32
        /\ get(board, Named(0, 0)) = { Piece(White, Rook) }
        /\ get(board, Named(4, 0)) = { Piece(White, King) }
        /\ get(board, Named(3, 7)) = { Piece(Black, Queen) }
        /\ get(board, Named(4, 7)) = { Piece(Black, King) }
        /\ \A s \in Squares : (s \div 8) \in 2 .. 5 => get(board, s) = {}

C6_Witness ==
    /\ started = "starting_position"
    /\ calls = 0
    /\ Cardinality(Populated(board)) = 32
    /\ get(board, Named(7, 7)) = { Piece(Black, Rook) }

\* Offset of a file letter, by table.
UpperLetters == <<65, 66, 67, 68, 69, 70, 71, 72>>
LowerLetters == <<97, 98, 99, 100, 101, 102, 103, 104>>
Digits == <<49, 50, 51, 52, 53, 54, 55, 56>>

IsLetter(b) == \E i \in 1 .. 8 : UpperLetters[i] = b \/ LowerLetters[i] = b
IsDigit(b) == \E i \in 1 .. 8 : Digits[i] = b
LetterOffset(b) == (CHOOSE i \in 1 .. 8 : UpperLetters[i] = b \/ LowerLetters[i] = b) - 1
DigitOffset(b) == (CHOOSE i \in 1 .. 8 : Digits[i] = b) - 1

WellFormed(s) == Len(s) = 2 /\ IsLetter(s[1]) /\ IsDigit(s[2])

\* C7: from_str succeeds exactly on the two-byte strings made of a letter
\* 'A'..'H' or 'a'..'h' followed by a digit '1'..'8'; every other byte string
\* gives the error; an upper-case letter gives the square of its lower-case
\* form (letter offset * 8 + digit offset).
C7_ParseAcceptsExactly ==
    (pc = "parsed") =>
        /\ (parsed # {}) <=> WellFormed(input)
        /\ WellFormed(input) =>
              parsed = { LetterOffset(input[1]) * 8 + DigitOffset(input[2]) }

\* "C5" parsed.
C7_Witness ==
    /\ pc = "parsed"
    /\ input = <<67, 53>>
    /\ parsed = { 20 }

\* C8: to_string of Square::at(r, f) is the letter at offset r from 'a'
\* followed by the digit f + 1, and Square::at(8, 8) is None.
C8_FormatAsTested ==
    /\ (pc \in {"formatted", "parsed"}) =>
          text = << b_a + coords[1], b_1 + coords[2] >>
    /\ (pc # "start" /\ coords = <<8, 8>>) => square = {}

\* C4: formatting Square::at(rank, file) and parsing the text succeeds and
\* yields the same square, with the same rank and file.
C4_RoundTrip ==
    (pc = "parsed") =>
        /\ parsed = square
        /\ \A sq \in parsed : /\ Square_rank(sq) = coords[1]
                              /\ Square_file(sq) = coords[2]

\* Bitboards a set of (square, piece) pairs stands for.
ColorMasksOf(P) == [c \in Colors |-> { a.square : a \in { x \in P : x.piece.color = c } }]
KindMasksOf(P) == [k \in PieceKinds |-> { a.square : a \in { x \in P : x.piece.kind = k } }]

\* C9: after set(S, Some(piece)) once per assigned square on the empty board,
\* in any order, get returns the assigned piece on every assigned square and
\* absent on every other, and the bitboards depend on the assignment only.
C9_BuildBySet ==
    /\ \A s \in Squares :
          get(board, s) = { a.piece : a \in { x \in placed : x.square = s } }
    /\ color_bb = ColorMasksOf(placed)
    /\ piece_bb = KindMasksOf(placed)

\* Three squares populated, with both colours and a repeated kind.
C9_Witness ==
    /\ Cardinality(placed) = 3
    /\ calls = 3
    /\ \E a, b \in placed : a.piece.color # b.piece.color
    /\ \E a, b \in placed : a.square # b.square /\ a.piece.kind = b.piece.kind

\* C10: on a board reached from the empty board or starting_position() by
\* set calls that clear a square before overwriting it, bit S of get_bb(p) is
\* set exactly when get(S) is p, and the get_bb masks of distinct pieces are
\* disjoint.
C10_GetBbAgreesWithGet ==
    /\ \A p \in Pieces :
          LET bb == get_bb(board, p)
          IN  \A s \in Squares : BitBoard_get(bb, s) <=> (get(board, s) = {p})
    /\ \A p, q \in Pieces : p # q => get_bb(board, p) \cap get_bb(board, q) = {}

\* a1 of the starting position cleared and given a black pawn.
C10_Witness ==
    /\ started = "starting_position"
    /\ 0 \in cleared
    /\ last # << >>
    /\ LastCall.piece = { Piece(Black, Pawn) }
    /\ LastCall.square = 0
    /\ BitBoard_get(get_bb(board, Piece(Black, Pawn)), 0)
    /\ Cardinality(get_bb(board, Piece(Black, Pawn))) = 9

====
